---------------------------- MODULE Spec2Model ----------------------------
(***************************************************************************)
(* Model of the GUE gas-planning formula library (gue_calc_lib.py) and of  *)
(* the `tank` command of its command-line front end (gue_calc_cli.py).     *)
(*                                                                         *)
(* The library is a set of pure functions.  Each one is an operator here,  *)
(* computed step by step as the Python source computes it, and the state   *)
(* machine applies one function per step to inputs drawn from bounded      *)
(* sets, recording the call, its arguments and its outcome.  The library   *)
(* keeps no state between calls, so a run is a single call.                *)
(*                                                                         *)
(* Numbers.  A Python int is a TLA+ integer.  A Python float is an exact   *)
(* rational [num, den] in lowest terms with den > 0: the model computes    *)
(* the real-number value of every expression and does not model the        *)
(* representation error of binary floating point.                          *)
(*                                                                         *)
(* Outcomes.  A call either returns a value, [kind |-> "ok", value |-> v], *)
(* or raises, [kind |-> e, value |-> 0], e being "UnknownTank" (the        *)
(* KeyError of calcBottomTime), "InvalidMethod" (the KeyError of calcUG)   *)
(* or "DivisionByZero" (Python's ZeroDivisionError).                       *)
(***************************************************************************)
EXTENDS Integers, Sequences, FiniteSets, TLC

VARIABLES call, args, ret, stdout, exitCode

vars == <<call, args, ret, stdout, exitCode>>

(***************************************************************************)
(* Bounds of the input sets.                                               *)
(***************************************************************************)
MaxDepth == 100
MaxNegDepth == 40
MaxSwitch == 70
MaxRateHalves == 3
MaxVol == 40
MaxFO2Pct == 100
MaxPPO2Tenths == 16
MaxSmall == 4
MaxPsiSteps == 7
MaxScrHalves == 3

(***************************************************************************)
(* Exact rational arithmetic standing for Python float arithmetic.         *)
(***************************************************************************)
Abs(x) == IF x < 0 THEN -x ELSE x

RECURSIVE GCD(_, _)
GCD(a, b) == IF b = 0 THEN a ELSE GCD(b, a % b)

Rat(n, d) ==
    LET g == GCD(Abs(n), Abs(d))
        s == IF d < 0 THEN -1 ELSE 1
    IN  [num |-> (s * n) \div g, den |-> (s * d) \div g]

I2R(n) == [num |-> n, den |-> 1]

RAdd(x, y) == Rat(x.num * y.den + y.num * x.den, x.den * y.den)
RSub(x, y) == Rat(x.num * y.den - y.num * x.den, x.den * y.den)
RMul(x, y) == Rat(x.num * y.num, x.den * y.den)
\* x / y for y # 0; the callers test y.num = 0 where Python would raise.
RDiv(x, y) == Rat(x.num * y.den, x.den * y.num)

\* math.floor(x)
Floor(x) == x.num \div x.den

\* int(x): truncation toward zero
Trunc(x) == IF x.num >= 0 THEN x.num \div x.den ELSE -((-x.num) \div x.den)

\* round(x): Python 3 rounds to the nearest integer, a tie to the even one
Round(x) ==
    LET q == x.num \div x.den
        r == x.num % x.den
    IN  IF 2 * r > x.den \/ (2 * r = x.den /\ q % 2 = 1) THEN q + 1 ELSE q

\* round(x, 1)
Round1(x) == Rat(Round(RMul(x, I2R(10))), 10)

Ok(v) == [kind |-> "ok", value |-> v]
Raise(e) == [kind |-> e, value |-> 0]

(***************************************************************************)
(* gue_calc_lib.py                                                         *)
(***************************************************************************)
\* Mutant of calcATA: the default divisor is the fresh-water one.
calcATA_freshDefault(depth, water) ==
    LET divisor == IF water = "salt" THEN I2R(33) ELSE I2R(34)
    IN  Round1(RAdd(RDiv(depth, divisor), I2R(1)))

calcATA(depth, water) ==
    LET divisor == IF water = "fresh" THEN I2R(34) ELSE I2R(33)
    IN  Round1(RAdd(RDiv(depth, divisor), I2R(1)))

\* Mutant of calcTimeToStop: a switch depth of 0 counts as a gas switch.
calcTimeToStop_switchAtSurface(depth, gas_switch_depth) ==
    IF gas_switch_depth.num >= 0
    THEN Trunc(RAdd(RDiv(RSub(depth, gas_switch_depth), I2R(10)), I2R(2)))
    ELSE Trunc(RAdd(RDiv(depth, I2R(10)), I2R(1)))

calcTimeToStop(depth, gas_switch_depth) ==
    IF gas_switch_depth.num > 0
    THEN Trunc(RAdd(RDiv(RSub(depth, gas_switch_depth), I2R(10)), I2R(2)))
    ELSE Trunc(RAdd(RDiv(depth, I2R(10)), I2R(1)))

\* Mutant of calcMG: round(mg), Python's round-half-to-even, for floor(mg + 0.5).
calcMG_bankers(depth, gas_switch_depth, c) ==
    LET a  == RDiv(RAdd(calcATA(depth, "salt"), calcATA(gas_switch_depth, "salt")), I2R(2))
        t  == calcTimeToStop(depth, gas_switch_depth)
        mg == RMul(RMul(c, a), I2R(t))
    IN  Round(mg)

calcMG(depth, gas_switch_depth, c) ==
    LET a  == RDiv(RAdd(calcATA(depth, "salt"), calcATA(gas_switch_depth, "salt")), I2R(2))
        t  == calcTimeToStop(depth, gas_switch_depth)
        mg == RMul(RMul(c, a), I2R(t))
    IN  Floor(RAdd(mg, Rat(1, 2)))

\* The module-level dict `tanks`; TankOrder is its insertion order (dict.keys()).
TankOrder == <<"AL80", "2xAL80", "AL40", "2xLP85", "2xHP100", "2xHP133">>

tanks ==
    [n \in {TankOrder[i] : i \in 1 .. Len(TankOrder)} |->
        CASE n = "AL80"    -> [rated_vol |-> 77,  rated_PSI |-> 3000]
          [] n = "2xAL80"  -> [rated_vol |-> 154, rated_PSI |-> 3000]
          [] n = "AL40"    -> [rated_vol |-> 40,  rated_PSI |-> 3000]
          [] n = "2xLP85"  -> [rated_vol |-> 170, rated_PSI |-> 2640]
          [] n = "2xHP100" -> [rated_vol |-> 200, rated_PSI |-> 3442]
          [] n = "2xHP133" -> [rated_vol |-> 266, rated_PSI |-> 3442]]

\* Mutant of calcTF: rated_vol // rated_psi, the integer division of Python 2.
calcTF_intDivision(rated_vol, rated_psi) ==
    RDiv(I2R(Round(RMul(RMul(I2R(Floor(RDiv(rated_vol, rated_psi))), I2R(100)), I2R(2)))),
         I2R(2))

\* Mutant of calcTF: the intermediate rounding is floor(x + 0.5), half up.
calcTF_halfUp(rated_vol, rated_psi) ==
    RDiv(I2R(Floor(RAdd(RMul(RMul(RDiv(rated_vol, rated_psi), I2R(100)), I2R(2)),
                        Rat(1, 2)))),
         I2R(2))

calcTF(rated_vol, rated_psi) ==
    RDiv(I2R(Round(RMul(RMul(RDiv(rated_vol, rated_psi), I2R(100)), I2R(2)))), I2R(2))

calcPSI(tank_factor, gas_cf) ==
    IF tank_factor.num = 0
    THEN Raise("DivisionByZero")
    ELSE Ok(Trunc(RDiv(gas_cf, tank_factor)) * 100)

\* Mutant of nitrox_FO2: the guard is `<= 0`.
nitrox_FO2_nonPositive(trimix_po2, nitrox_p_val) ==
    IF nitrox_p_val.num <= 0
    THEN Ok(I2R(0))
    ELSE Ok(RDiv(trimix_po2, nitrox_p_val))

nitrox_FO2(trimix_po2, nitrox_p_val) ==
    IF nitrox_p_val.num = 0
    THEN Ok(I2R(0))
    ELSE Ok(RDiv(trimix_po2, nitrox_p_val))

\* Mutant of calcSCR: guarded the way nitrox_FO2 is.
calcSCR_guarded(volume_consumed, ata, minutes) ==
    IF ata.num = 0 \/ minutes.num = 0
    THEN Ok(I2R(0))
    ELSE Ok(RDiv(RDiv(volume_consumed, ata), minutes))

\* volume_consumed / ata / minutes: two divisions, left to right
calcSCR(volume_consumed, ata, minutes) ==
    IF ata.num = 0
    THEN Raise("DivisionByZero")
    ELSE LET q == RDiv(volume_consumed, ata)
         IN  IF minutes.num = 0
             THEN Raise("DivisionByZero")
             ELSE Ok(RDiv(q, minutes))

methods == [m \in {"ALL", "HALF", "THIRDS"} |->
               CASE m = "ALL" -> 1 [] m = "HALF" -> 2 [] m = "THIRDS" -> 3]

\* Mutant of calcUG: an unknown method falls back to ALL.
calcUG_defaultAll(curr_psi, mg_psi, method) ==
    IF method \notin DOMAIN methods
    THEN Ok(RSub(curr_psi, mg_psi))
    ELSE Ok(RDiv(RSub(curr_psi, mg_psi), I2R(methods[method])))

calcUG(curr_psi, mg_psi, method) ==
    IF method \notin DOMAIN methods
    THEN Raise("InvalidMethod")
    ELSE Ok(RDiv(RSub(curr_psi, mg_psi), I2R(methods[method])))

\* Mutant of calcBottomTime: the method is validated before the tank lookup.
calcBottomTime_methodFirst(depth, tank, method, scr) ==
    IF method \notin DOMAIN methods
    THEN Raise("InvalidMethod")
    ELSE IF tank \notin DOMAIN tanks
    THEN Raise("UnknownTank")
    ELSE LET ata    == calcATA(depth, "salt")
             tank_info == tanks[tank]
             tf     == calcTF(I2R(tank_info.rated_vol), I2R(tank_info.rated_PSI))
             mg_psi == calcPSI(tf, I2R(calcMG(depth, I2R(0), Rat(3, 2))))
         IN  IF mg_psi.kind # "ok"
             THEN mg_psi
             ELSE LET ug == calcUG(I2R(tank_info.rated_PSI), I2R(mg_psi.value), method)
                      d  == RMul(scr, ata)
                  IN  IF d.num = 0
                      THEN Raise("DivisionByZero")
                      ELSE Ok(RDiv(ug.value, d))

calcBottomTime(depth, tank, method, scr) ==
    LET ata == calcATA(depth, "salt")
    IN  IF tank \notin DOMAIN tanks
        THEN Raise("UnknownTank")
        ELSE LET tank_info == tanks[tank]
                 tf     == calcTF(I2R(tank_info.rated_vol), I2R(tank_info.rated_PSI))
                 mg_cf  == calcMG(depth, I2R(0), Rat(3, 2))
                 mg_psi == calcPSI(tf, I2R(mg_cf))
             IN  IF mg_psi.kind # "ok"
                 THEN mg_psi
                 ELSE LET ug == calcUG(I2R(tank_info.rated_PSI), I2R(mg_psi.value), method)
                      IN  IF ug.kind # "ok"
                          THEN ug
                          ELSE LET d == RMul(scr, ata)
                               IN  IF d.num = 0
                                   THEN Raise("DivisionByZero")
                                   ELSE Ok(RDiv(ug.value, d))

\* Mutant of calcMOD: the depth is rounded to the nearest foot, not truncated.
calcMOD_rounded(f_o2, ppo2_limit, water) ==
    IF f_o2.num <= 0
    THEN 0
    ELSE LET factor == IF water = "fresh" THEN I2R(34) ELSE I2R(33)
             ata    == RDiv(ppo2_limit, f_o2)
         IN  Round(RMul(RSub(ata, I2R(1)), factor))

calcMOD(f_o2, ppo2_limit, water) ==
    IF f_o2.num <= 0
    THEN 0
    ELSE LET factor == IF water = "fresh" THEN I2R(34) ELSE I2R(33)
             ata    == RDiv(ppo2_limit, f_o2)
         IN  Trunc(RMul(RSub(ata, I2R(1)), factor))

(***************************************************************************)
(* gue_calc_cli.py: the `tank` command.  A printed line is a string; the   *)
(* process's standard output is the sequence of its lines.                 *)
(***************************************************************************)
\* str(x) of a float that is a multiple of 0.5 and >= 0, as an f-string prints it
FloatStr(x) ==
    ToString(x.num \div x.den) \o "." \o (IF x.den = 1 THEN "0" ELSE "5")

\* sep.join(names)
RECURSIVE Join(_, _)
Join(names, sep) ==
    IF Len(names) = 0 THEN ""
    ELSE IF Len(names) = 1 THEN names[1]
    ELSE names[1] \o sep \o Join(Tail(names), sep)

\* Mutant of cmd_tank: the error is printed and the command returns, status 0.
cmd_tank_noExit(tank_name) ==
    IF tank_name \notin DOMAIN tanks
    THEN [stdout |-> << "Error: Tank '" \o tank_name \o "' not found. Available tanks: "
                        \o Join(TankOrder, ", ") >>,
          exitCode |-> 0]
    ELSE LET t  == tanks[tank_name]
             tf == calcTF(I2R(t.rated_vol), I2R(t.rated_PSI))
         IN  [stdout |-> << "Tank: " \o tank_name,
                            "  Rated Volume: " \o ToString(t.rated_vol) \o " cf",
                            "  Rated Pressure: " \o ToString(t.rated_PSI) \o " psi",
                            "  Tank Factor: " \o FloatStr(tf) \o " cf/100psi" >>,
              exitCode |-> 0]

\* cmd_tank, run as the whole process: main() parses `tank <tank_name>` and
\* calls it; sys.exit(1) ends the process with status 1, a normal return of
\* main() with status 0.
cmd_tank(tank_name) ==
    IF tank_name \notin DOMAIN tanks
    THEN [stdout |-> << "Error: Tank '" \o tank_name \o "' not found. Available tanks: "
                        \o Join(TankOrder, ", ") >>,
          exitCode |-> 1]
    ELSE LET t  == tanks[tank_name]
             tf == calcTF(I2R(t.rated_vol), I2R(t.rated_PSI))
         IN  [stdout |-> << "Tank: " \o tank_name,
                            "  Rated Volume: " \o ToString(t.rated_vol) \o " cf",
                            "  Rated Pressure: " \o ToString(t.rated_PSI) \o " psi",
                            "  Tank Factor: " \o FloatStr(tf) \o " cf/100psi" >>,
              exitCode |-> 0]

(***************************************************************************)
(* Input sets.                                                             *)
(***************************************************************************)
Depths == 0 .. MaxDepth
AnyDepths == (-MaxNegDepth) .. MaxDepth
SwitchDepths == 0 .. MaxSwitch
AnySwitchDepths == (-MaxNegDepth) .. MaxSwitch
Waters == {"salt", "fresh", "brackish", ""}
Rates == {Rat(k, 2) : k \in 1 .. MaxRateHalves}
\* rated volumes and pressures: a grid, and the registry's own pairs
RatedPressures == {16, 400, 2640, 3000, 3442}
TFInputs ==
    {<<v, p>> : v \in 1 .. MaxVol, p \in RatedPressures}
        \cup {<<tanks[n].rated_vol, tanks[n].rated_PSI>> : n \in DOMAIN tanks}
FO2s == {Rat(k, 100) : k \in (-1) .. MaxFO2Pct}
PPO2s == {Rat(k, 10) : k \in 0 .. MaxPPO2Tenths}
ModWaters == {"salt", "fresh"}
SmallRats == {Rat(k, 2) : k \in (-MaxSmall) .. MaxSmall}
FillPressures == SmallRats \cup {I2R(480), I2R(1800)}
GaugePressures == {I2R(500 * k) : k \in 0 .. MaxPsiSteps}
MethodArgs == {"ALL", "HALF", "THIRDS", "all", "THIRD", "QUARTERS", ""}
TankArgs == DOMAIN tanks \cup {"INVALID", "NONEXISTENT", "al80", ""}
Scrs == {Rat(k, 2) : k \in 0 .. MaxScrHalves}

(***************************************************************************)
(* The state machine: a run makes one library call (or one CLI command).   *)
(***************************************************************************)
Init ==
    /\ call = "none"
    /\ args = <<>>
    /\ ret = Ok(0)
    /\ stdout = <<>>
    /\ exitCode = -1

\* A call is made on a fresh process: the library keeps no state between calls.
Returned(name, a, r) ==
    /\ call' = name
    /\ args' = a
    /\ ret' = r
    /\ UNCHANGED <<stdout, exitCode>>

CallCalcATA ==
    /\ call = "none"
    /\ \E depth \in AnyDepths, water \in Waters :
        Returned("calcATA", <<depth, water>>, Ok(calcATA(I2R(depth), water)))

CallCalcTimeToStop ==
    /\ call = "none"
    /\ \E depth \in AnyDepths, sw \in AnySwitchDepths :
        Returned("calcTimeToStop", <<depth, sw>>,
                 Ok(calcTimeToStop(I2R(depth), I2R(sw))))

CallCalcMG ==
    /\ call = "none"
    /\ \E depth \in Depths, sw \in SwitchDepths, c \in Rates :
        Returned("calcMG", <<depth, sw, c>>, Ok(calcMG(I2R(depth), I2R(sw), c)))

CallCalcTF ==
    /\ call = "none"
    /\ \E in \in TFInputs :
        Returned("calcTF", in, Ok(calcTF(I2R(in[1]), I2R(in[2]))))

CallNitroxFO2 ==
    /\ call = "none"
    /\ \E po2 \in FillPressures, p \in FillPressures :
        Returned("nitrox_FO2", <<po2, p>>, nitrox_FO2(po2, p))

CallCalcSCR ==
    /\ call = "none"
    /\ \E v \in SmallRats, ata \in SmallRats, minutes \in SmallRats :
        Returned("calcSCR", <<v, ata, minutes>>, calcSCR(v, ata, minutes))

CallCalcUG ==
    /\ call = "none"
    /\ \E curr \in GaugePressures, mg \in GaugePressures, method \in MethodArgs :
        Returned("calcUG", <<curr, mg, method>>, calcUG(curr, mg, method))

CallCalcBottomTime ==
    /\ call = "none"
    /\ \E depth \in AnyDepths, tank \in TankArgs, method \in MethodArgs, scr \in Scrs :
        Returned("calcBottomTime", <<depth, tank, method, scr>>,
                 calcBottomTime(I2R(depth), tank, method, scr))

CallCalcMOD ==
    /\ call = "none"
    /\ \E f_o2 \in FO2s, ppo2 \in PPO2s, water \in ModWaters :
        Returned("calcMOD", <<f_o2, ppo2, water>>, Ok(calcMOD(f_o2, ppo2, water)))

\* python gue_calc_cli.py tank <tank_name>
RunTank ==
    /\ call = "none"
    /\ \E tank_name \in TankArgs :
        LET p == cmd_tank(tank_name)
        IN  /\ call' = "tank"
            /\ args' = <<tank_name>>
            /\ stdout' = p.stdout
            /\ exitCode' = p.exitCode
            /\ UNCHANGED ret

Next ==
    \/ CallCalcATA
    \/ CallCalcTimeToStop
    \/ CallCalcMG
    \/ CallCalcTF
    \/ CallNitroxFO2
    \/ CallCalcSCR
    \/ CallCalcUG
    \/ CallCalcBottomTime
    \/ CallCalcMOD
    \/ RunTank

Spec == Init /\ [][Next]_vars

(***************************************************************************)
(* Properties.  Each is stated from the arguments and the outcome of the   *)
(* call, in integer arithmetic of its own, not through the operator that   *)
(* computed the outcome.                                                   *)
(***************************************************************************)
\* The names of the tank registry, written out.
RegisteredNames == {"AL80", "2xAL80", "AL40", "2xLP85", "2xHP100", "2xHP133"}

\* The method keys, written out, with their divisors.
MethodDivisor(m) == CASE m = "ALL" -> 1 [] m = "HALF" -> 2 [] m = "THIRDS" -> 3

\* r is n/d (d > 0) truncated toward zero.
IsTruncOf(r, n, d) ==
    IF n >= 0 THEN d * r <= n /\ n < d * (r + 1)
              ELSE d * (r - 1) < n /\ n <= d * r

\* k tenths is 1 + depth/divisor rounded to one decimal place.
IsTenthsOfATA(k, depth, divisor) ==
    2 * Abs(10 * (depth + divisor) - divisor * k) <= divisor

\* The number of tenths in a one-decimal value x.
Tenths(x) == (x.num * 10) \div x.den

C2_UnknownTankFirst ==
    (call = "calcBottomTime" /\ args[2] \notin RegisteredNames)
        => ret.kind = "UnknownTank"

\* Witness of C2: an unknown tank together with an invalid method and scr = 0.
C2_Witness ==
    /\ call = "calcBottomTime"
    /\ args = <<100, "NONEXISTENT", "QUARTERS", I2R(0)>>
    /\ ret.kind = "UnknownTank"

\* C3: usableGas raises InvalidMethod for every method that is not exactly
\* ALL, HALF or THIRDS, and for those returns (currentPSI - minGasPSI)
\* divided by 1, 2 and 3.
C3_UsableGas ==
    call = "calcUG" =>
        LET curr == args[1]
            mg   == args[2]
            m    == args[3]
        IN  IF m \notin {"ALL", "HALF", "THIRDS"}
            THEN ret.kind = "InvalidMethod"
            ELSE /\ ret.kind = "ok"
                 /\ ret.value.den > 0
                 /\ ret.value.num * MethodDivisor(m) * curr.den * mg.den
                        = (curr.num * mg.den - mg.num * curr.den) * ret.value.den

\* Witness of C3: (3000 - 500) / 3 by THIRDS.
C3_Witness ==
    /\ call = "calcUG"
    /\ args = <<I2R(3000), I2R(500), "THIRDS">>
    /\ ret = Ok(Rat(2500, 3))

\* C4: `tank <name>` exits with status 1 and prints the one line
\* "Error: Tank '<name>' not found. Available tanks: ..." exactly when <name>
\* is not a registered name; for a registered name it prints the name, the
\* rated volume, the rated pressure and the tank factor, and exits 0.
ExpectedTankLines(name) ==
    CASE name = "AL80"    -> <<"Tank: AL80", "  Rated Volume: 77 cf",
                               "  Rated Pressure: 3000 psi", "  Tank Factor: 2.5 cf/100psi">>
      [] name = "2xAL80"  -> <<"Tank: 2xAL80", "  Rated Volume: 154 cf",
                               "  Rated Pressure: 3000 psi", "  Tank Factor: 5.0 cf/100psi">>
      [] name = "AL40"    -> <<"Tank: AL40", "  Rated Volume: 40 cf",
                               "  Rated Pressure: 3000 psi", "  Tank Factor: 1.5 cf/100psi">>
      [] name = "2xLP85"  -> <<"Tank: 2xLP85", "  Rated Volume: 170 cf",
                               "  Rated Pressure: 2640 psi", "  Tank Factor: 6.5 cf/100psi">>
      [] name = "2xHP100" -> <<"Tank: 2xHP100", "  Rated Volume: 200 cf",
                               "  Rated Pressure: 3442 psi", "  Tank Factor: 6.0 cf/100psi">>
      [] name = "2xHP133" -> <<"Tank: 2xHP133", "  Rated Volume: 266 cf",
                               "  Rated Pressure: 3442 psi", "  Tank Factor: 7.5 cf/100psi">>

TankError(name) ==
    "Error: Tank '" \o name
        \o "' not found. Available tanks: AL80, 2xAL80, AL40, 2xLP85, 2xHP100, 2xHP133"

C4_TankCommand ==
    call = "tank" =>
        LET name == args[1]
        IN  /\ exitCode \in {0, 1}
            /\ exitCode = 1 <=> name \notin RegisteredNames
            /\ (TankError(name) \in {stdout[i] : i \in 1 .. Len(stdout)})
                   <=> name \notin RegisteredNames
            /\ name \notin RegisteredNames => stdout = <<TankError(name)>>
            /\ name \in RegisteredNames => stdout = ExpectedTankLines(name)

\* Witness of C4: the unknown name INVALID.
C4_Witness ==
    /\ call = "tank"
    /\ args = <<"INVALID">>
    /\ exitCode = 1
    /\ stdout = <<"Error: Tank 'INVALID' not found. Available tanks: AL80, 2xAL80, AL40, 2xLP85, 2xHP100, 2xHP133">>

C7_AmbientPressure ==
    call = "calcATA" =>
        LET depth   == args[1]
            water   == args[2]
            divisor == IF water = "fresh" THEN 34 ELSE 33
            x       == ret.value
        IN  /\ ret.kind = "ok"
            /\ x.den \in {1, 2, 5, 10}
            /\ IsTenthsOfATA(Tenths(x), depth, divisor)
            /\ depth = 0 => x = I2R(1)
            /\ (depth = 33 /\ water # "fresh") => x = I2R(2)
            /\ (depth = 34 /\ water = "fresh") => x = I2R(2)

\* Witness of C7: an unrecognized water value at 33 ft gives the salt-water 2.0.
C7_Witness ==
    /\ call = "calcATA"
    /\ args = <<33, "brackish">>
    /\ ret = Ok(I2R(2))

\* C8: minutesToStop(depth, switchDepth) is (depth - switchDepth)/10 + 2
\* truncated toward zero when switchDepth > 0, and depth/10 + 1 truncated
\* toward zero, whatever switchDepth, when switchDepth <= 0; 100 -> 11,
\* 30 -> 4, 100 with a switch at 70 -> 5.
C8_MinutesToStop ==
    call = "calcTimeToStop" =>
        LET depth == args[1]
            sw    == args[2]
            r     == ret.value
        IN  /\ ret.kind = "ok"
            /\ sw > 0 => IsTruncOf(r, depth - sw + 20, 10)
            /\ sw <= 0 => IsTruncOf(r, depth + 10, 10)
            /\ (sw > 0 /\ depth % 10 = 0 /\ sw % 10 = 0) => r = (depth - sw) \div 10 + 2
            /\ (sw <= 0 /\ depth % 10 = 0) => r = depth \div 10 + 1
            /\ (depth = 100 /\ sw = 0) => r = 11
            /\ (depth = 30 /\ sw = 0) => r = 4
            /\ (depth = 100 /\ sw = 70) => r = 5

\* Witness of C8: a negative switch depth is ignored: 95/10 + 1 = 10.5 gives 10.
C8_Witness ==
    /\ call = "calcTimeToStop"
    /\ args = <<95, -5>>
    /\ ret = Ok(10)

\* C9: surfaceConsumptionRate fails with DivisionByZero exactly when
\* ata * minutes = 0, and otherwise returns volumeConsumed / (ata * minutes).
C9_ScrDivisionByZero ==
    call = "calcSCR" =>
        LET v   == args[1]
            ata == args[2]
            m   == args[3]
        IN  /\ ret.kind \in {"ok", "DivisionByZero"}
            /\ ret.kind = "DivisionByZero" <=> ata.num * m.num = 0
            /\ ret.kind = "ok" =>
                /\ ret.value.den > 0
                /\ ret.value.num * (ata.num * m.num) * v.den
                       = v.num * (ata.den * m.den) * ret.value.den

\* Witness of C9: a non-zero ata with minutes = 0 raises.
C9_Witness ==
    /\ call = "calcSCR"
    /\ args = <<I2R(2), Rat(3, 2), I2R(0)>>
    /\ ret.kind = "DivisionByZero"

\* C10: nitroxFractionO2 never raises: it returns 0.0 for every oxygenPSI
\* when remainingPressure = 0 and oxygenPSI / remainingPressure for every
\* other remainingPressure, negative ones included.
C10_NitroxGuard ==
    call = "nitrox_FO2" =>
        LET po2 == args[1]
            p   == args[2]
        IN  /\ ret.kind = "ok"
            /\ p.num = 0 => ret.value = I2R(0)
            /\ p.num # 0 =>
                /\ ret.value.den > 0
                /\ ret.value.num * p.num * po2.den = po2.num * p.den * ret.value.den

\* Witness of C10: nitroxFractionO2(480.0, 0) = 0.0.
C10_Witness ==
    /\ call = "nitrox_FO2"
    /\ args = <<I2R(480), I2R(0)>>
    /\ ret = Ok(I2R(0))

\* C11: estimatedBottomTime never fails for in-domain input: for every
\* registered tank, every method of ALL, HALF, THIRDS, every depth >= 0 and
\* every scr > 0 it returns a number, because the tank factor of the tank is
\* at least 0.5 (psiFromCubicFeet does not divide by zero) and the salt-water
\* ambient pressure at the depth is at least 1.0 (scr * ambientPressure is
\* not zero).
C11_BottomTimeNeverFails ==
    (/\ call = "calcBottomTime"
     /\ args[1] >= 0
     /\ args[2] \in RegisteredNames
     /\ args[3] \in {"ALL", "HALF", "THIRDS"}
     /\ args[4].num > 0) =>
        LET t   == tanks[args[2]]
            tf  == calcTF(I2R(t.rated_vol), I2R(t.rated_PSI))
            ata == calcATA(I2R(args[1]), "salt")
        IN  /\ ret.kind = "ok"
            /\ ret.value.den > 0
            /\ 2 * tf.num >= tf.den
            /\ ata.num >= ata.den
            /\ calcPSI(tf, I2R(calcMG(I2R(args[1]), I2R(0), Rat(3, 2)))).kind = "ok"
            /\ args[4].num * ata.num # 0

\* Witness of C11: 100 ft on double AL80s, all usable gas, scr 1.5:
\* 2200 psi / (1.5 * 4.0) = 366.67 minutes.
C11_Witness ==
    /\ call = "calcBottomTime"
    /\ args = <<100, "2xAL80", "ALL", Rat(3, 2)>>
    /\ ret = Ok(Rat(1100, 3))

=============================================================================
